---- MODULE Spec2Model ----
(***************************************************************************)
(* A model of the qemd simulation core (qemd/simulate.py, qemd/metrics.py, *)
(* qemd/config.py): Hamiltonian and Lindblad-operator construction, the    *)
(* stepping loop of time_evolve, the gamma sweep, and the scalar metrics.  *)
(*                                                                         *)
(* Every function of the core has one frame variable holding its inputs,   *)
(* its locals and its result.  A pure function is applied by one action;   *)
(* the two loops the claims speak about step by step (time_evolve and      *)
(* enaqt_sweep) are modelled one iteration per action.                     *)
(*                                                                         *)
(* Numbers.  A Python float is modelled as an integer of bounded magnitude *)
(* (|x| <= MaxFloat) or one of the three IEEE specials inf, -inf, nan; an  *)
(* operation whose exact result leaves the range overflows to an infinity, *)
(* and inf - inf and 0 * inf are nan.  A complex number is a record of two *)
(* such floats.  Indices are 1-based here and 0-based in the source.       *)
(***************************************************************************)
EXTENDS Integers, Sequences, FiniteSets, TLC

VARIABLES ham, lind, evo, etef, gstar, res, sweep, tau

vars == <<ham, lind, evo, etef, gstar, res, sweep, tau>>

\* The frame of a function that is not running in the specification at hand.
Idle == [pc |-> "idle"]

-----------------------------------------------------------------------------
(* Bounds of the model *)

\* Largest number of sites of a Hamiltonian drawn as an input.
MaxN == 3
\* Largest site energy or coupling drawn as an input.
MaxVal == 1
\* Largest finite magnitude of a float.
MaxFloat == 40
\* Largest num_sites drawn as an input of build_lindblad_ops.
MaxSites == 8
\* Largest N of an N x N density matrix drawn as an input of time_evolve.
MaxDim == 2
\* Largest T_end and largest dt drawn as inputs, in ticks of a common unit.
MaxT == 3
MaxDt == 2
\* Sink populations are held in units of 1 / PopScale.
PopScale == 2
\* Longest trajectory drawn as an input of a metric.
MaxLen == 3
\* Largest k_sink tried on one trajectory.
MaxRate == 2
\* Largest score drawn as an input of compute_resilience, in grid units.
MaxScore == 4
\* Longest sequence of rates swept by enaqt_sweep.
MaxSweep == 2
\* Rates are drawn as the squares of 0..MaxRoot, so that their roots are exact.
MaxRoot == 2

-----------------------------------------------------------------------------
(* Floats *)

PosInf == MaxFloat + 1
NegInf == -(MaxFloat + 1)
NaN == MaxFloat + 2

IsNaN(x) == x = NaN
IsFinite(x) == x >= -MaxFloat /\ x <= MaxFloat
IsInf(x) == x = PosInf \/ x = NegInf

\* The float an exact integer result rounds to.
Overflow(x) == IF x > MaxFloat THEN PosInf ELSE IF x < -MaxFloat THEN NegInf ELSE x

Sign(x) == IF x > 0 THEN 1 ELSE IF x < 0 THEN -1 ELSE 0

FNeg(a) == IF IsNaN(a) THEN NaN ELSE -a

FAdd(a, b) ==
    IF IsNaN(a) \/ IsNaN(b) THEN NaN
    ELSE IF IsInf(a) /\ IsInf(b) THEN (IF a = b THEN a ELSE NaN)
    ELSE IF IsInf(a) THEN a
    ELSE IF IsInf(b) THEN b
    ELSE Overflow(a + b)

FSub(a, b) == FAdd(a, FNeg(b))

FMul(a, b) ==
    IF IsNaN(a) \/ IsNaN(b) THEN NaN
    ELSE IF IsInf(a) \/ IsInf(b)
         THEN (IF a = 0 \/ b = 0 THEN NaN
               ELSE IF Sign(a) * Sign(b) > 0 THEN PosInf ELSE NegInf)
    ELSE Overflow(a * b)

\* np.sqrt: nan below zero, else the root rounded to the nearest float.
FSqrt(x) ==
    IF IsNaN(x) \/ x < 0 THEN NaN
    ELSE IF x = PosInf THEN PosInf
    ELSE CHOOSE r \in 0..x :
             (r = 0 \/ (2 * r - 1) * (2 * r - 1) < 4 * x) /\ 4 * x <= (2 * r + 1) * (2 * r + 1)

-----------------------------------------------------------------------------
(* Complex numbers and matrices *)

Cplx(re, im) == [re |-> re, im |-> im]
CZero == Cplx(0, 0)
\* astype(complex) of a real number.
ToComplex(x) == Cplx(x, 0)
Conj(z) == Cplx(z.re, FNeg(z.im))
CIsFinite(z) == IsFinite(z.re) /\ IsFinite(z.im)
CAdd(a, b) == Cplx(FAdd(a.re, b.re), FAdd(a.im, b.im))
CMul(a, b) == Cplx(FSub(FMul(a.re, b.re), FMul(a.im, b.im)),
                   FAdd(FMul(a.re, b.im), FMul(a.im, b.re)))

\* An n x n matrix is a sequence of n rows, each a sequence of n entries.
Dim(M) == Len(M)
MatOf(n, f(_, _)) == [r \in 1..n |-> [c \in 1..n |-> f(r, c)]]
ConjTranspose(M) == MatOf(Dim(M), LAMBDA r, c : Conj(M[c][r]))

\* All sequences over S of length lo..hi.
SeqsBetween(S, lo, hi) == UNION {[1..n -> S] : n \in lo..hi}

-----------------------------------------------------------------------------
(* build_hamiltonian, simulate.py:13-29 *)

\* H = np.diag(epsilon)
Diag(epsilon) ==
    MatOf(Len(epsilon), LAMBDA r, c : IF r = c THEN epsilon[r] ELSE 0)

\* A faulty variant of SetCoupling: only the upper entry is written.
SetCouplingUpperOnly(H, i, v) ==
    [H EXCEPT ![i + 1] = [@ EXCEPT ![i + 2] = v]]

\* H[i, i + 1] = J[i]; H[i + 1, i] = J[i]      (i is the source's 0-based index)
SetCoupling(H, i, v) ==
    [H EXCEPT ![i + 1] = [@ EXCEPT ![i + 2] = v],
              ![i + 2] = [@ EXCEPT ![i + 1] = v]]

\* A result: the value returned, or the exception raised.
Returned(v) == [raised |-> "none", value |-> v]
Raised(e) == [raised |-> e, value |-> <<>>]

\* for i in range(N - 1): ...   J[i] raises IndexError past the end of J.
RECURSIVE HamLoop(_, _, _, _)
HamLoop(H, J, i, N) ==
    IF i >= N - 1 THEN Returned(H)
    ELSE IF i >= Len(J) THEN Raised("IndexError")
    ELSE HamLoop(SetCoupling(H, i, J[i + 1]), J, i + 1, N)

\* return H.astype(complex)
AsComplex(H) == MatOf(Dim(H), LAMBDA r, c : ToComplex(H[r][c]))

build_hamiltonian(epsilon, J) ==
    LET r == HamLoop(Diag(epsilon), J, 0, Len(epsilon))
    IN  IF r.raised = "none" THEN Returned(AsComplex(r.value)) ELSE r

Vals == 0..MaxVal

HamInit ==
    /\ ham \in [pc : {"call"},
                epsilon : SeqsBetween(Vals, 1, MaxN),
                J : SeqsBetween(Vals, 0, MaxN),
                ret : {Raised("pending")}]
    /\ lind = Idle /\ evo = Idle /\ etef = Idle /\ gstar = Idle
    /\ res = Idle /\ sweep = Idle /\ tau = Idle

HamCall ==
    /\ ham.pc = "call"
    /\ ham' = [ham EXCEPT !.pc = "done",
                          !.ret = build_hamiltonian(ham.epsilon, ham.J)]
    /\ UNCHANGED <<lind, evo, etef, gstar, res, sweep, tau>>

HamNext == HamCall

SpecHam == HamInit /\ [][HamNext]_vars

\* C1: with len(J) = len(epsilon) - 1, build_hamiltonian returns the N x N
\* matrix with epsilon on the diagonal, J on the two neighbouring diagonals
\* and zero elsewhere, which equals its conjugate transpose.
C1_Tridiagonal ==
    (ham.pc = "done" /\ Len(ham.J) = Len(ham.epsilon) - 1) =>
        LET N == Len(ham.epsilon)
            H == ham.ret.value
        IN  /\ ham.ret.raised = "none"
            /\ Dim(H) = N
            /\ \A r \in 1..N : Len(H[r]) = N
            /\ \A r \in 1..N : H[r][r] = Cplx(ham.epsilon[r], 0)
            /\ \A r \in 1..(N - 1) :
                   /\ H[r][r + 1] = Cplx(ham.J[r], 0)
                   /\ H[r + 1][r] = Cplx(ham.J[r], 0)
            /\ \A r, c \in 1..N : (r - c > 1 \/ c - r > 1) => H[r][c] = CZero
            /\ H = ConjTranspose(H)

C1_Witness ==
    /\ ham.pc = "done"
    /\ Len(ham.epsilon) = 3 /\ Len(ham.J) = 2
    /\ ham.J[1] = 1 /\ ham.J[2] = 0 /\ ham.epsilon[2] = 1
    /\ ham.ret.raised = "none"

\* C2: a coupling vector whose length is not the site count minus 1 is
\* rejected with an error and no matrix is returned.
C2_RejectsMismatch ==
    (ham.pc = "done" /\ Len(ham.J) # Len(ham.epsilon) - 1) =>
        ham.ret.raised # "none"

-----------------------------------------------------------------------------
(* Configuration constants, config.py *)

NUM_ETC_SITES == 7
SINK_INDEX == NUM_ETC_SITES - 1
\* The default rates, in units of 0.005 / ps: K_SINK = 0.03, K_LOSS = 0.005.
K_SINK == 6
K_LOSS == 1

-----------------------------------------------------------------------------
(* build_lindblad_ops, simulate.py:31-59 *)

\* A = zeros((num_sites, num_sites)); A[i, i] = 1.0; np.sqrt(rate) * A
\* (i is the source's 0-based index)
ScaledProjector(num_sites, i, rate) ==
    LET root == ToComplex(FSqrt(rate))
        at_site == CMul(root, Cplx(1, 0))
        elsewhere == CMul(root, CZero)
    IN  MatOf(num_sites, LAMBDA r, c :
            IF r = i + 1 /\ c = i + 1 THEN at_site ELSE elsewhere)

\* 1. Dephasing: for i in range(num_sites)
DephasingOps(num_sites, gamma) ==
    [k \in 1..num_sites |-> ScaledProjector(num_sites, k - 1, gamma)]

\* 2. Loss: for i in range(num_sites): if i == SINK_INDEX: continue
\* The operators appended from site i on.
RECURSIVE LossOps(_, _, _)
LossOps(num_sites, k_loss, i) ==
    IF i >= num_sites THEN <<>>
    ELSE (IF i = SINK_INDEX THEN <<>>
          ELSE <<ScaledProjector(num_sites, i, k_loss)>>)
         \o LossOps(num_sites, k_loss, i + 1)

\* 3. Sink: A_sink[SINK_INDEX, SINK_INDEX] = 1.0 raises IndexError when the
\* matrix has fewer than SINK_INDEX + 1 rows.
build_lindblad_ops(num_sites, gamma, k_sink, k_loss) ==
    IF SINK_INDEX >= num_sites THEN Raised("IndexError")
    ELSE Returned(DephasingOps(num_sites, gamma)
                  \o LossOps(num_sites, k_loss, 0)
                  \o <<ScaledProjector(num_sites, SINK_INDEX, k_sink)>>)

Rates == {r * r : r \in 0..MaxRoot}

LindInit ==
    /\ lind \in [pc : {"call"},
                 num_sites : 1..MaxSites,
                 gamma : Rates, k_sink : Rates, k_loss : Rates,
                 ret : {Raised("pending")}]
    /\ ham = Idle /\ evo = Idle /\ etef = Idle /\ gstar = Idle
    /\ res = Idle /\ sweep = Idle /\ tau = Idle

LindCall ==
    /\ lind.pc = "call"
    /\ lind' = [lind EXCEPT
                   !.pc = "done",
                   !.ret = build_lindblad_ops(lind.num_sites, lind.gamma,
                                              lind.k_sink, lind.k_loss)]
    /\ UNCHANGED <<ham, evo, etef, gstar, res, sweep, tau>>

LindNext == LindCall

SpecLind == LindInit /\ [][LindNext]_vars

\* The matrix whose only entry that may differ from zero is v at (i, i), 1-based.
SingleEntry(n, i, v) ==
    MatOf(n, LAMBDA r, c : IF r = i /\ c = i THEN Cplx(v, 0) ELSE CZero)

\* C3: for every num_sites N >= 1, build_lindblad_ops returns 2N operators:
\* N dephasing operators (site i at (i,i)), then the N-1 loss operators of
\* the sites before the last, then the sink operator at (N-1, N-1).
C3_TwoNOperators ==
    lind.pc = "done" =>
        LET N == lind.num_sites
            L == lind.ret.value
        IN  /\ lind.ret.raised = "none"
            /\ Len(L) = 2 * N
            /\ \A k \in 1..N : L[k] = SingleEntry(N, k, FSqrt(lind.gamma))
            /\ \A k \in 1..(N - 1) :
                   L[N + k] = SingleEntry(N, k, FSqrt(lind.k_loss))
            /\ L[2 * N] = SingleEntry(N, N, FSqrt(lind.k_sink))

\* The same list is returned when num_sites is NUM_ETC_SITES, the one size
\* the sink index of config.py belongs to.
LindAtConfiguredSize ==
    (lind.pc = "done" /\ lind.num_sites = NUM_ETC_SITES) =>
        LET N == lind.num_sites
            L == lind.ret.value
        IN  /\ lind.ret.raised = "none"
            /\ Len(L) = 2 * N
            /\ \A k \in 1..N : L[k] = SingleEntry(N, k, FSqrt(lind.gamma))
            /\ \A k \in 1..(N - 1) :
                   L[N + k] = SingleEntry(N, k, FSqrt(lind.k_loss))
            /\ L[2 * N] = SingleEntry(N, N, FSqrt(lind.k_sink))

-----------------------------------------------------------------------------
(* time_evolve, simulate.py:61-98 *)

\* rho0.flatten(): row-major.
Flatten(rho) ==
    LET N == Dim(rho)
    IN  [k \in 1..(N * N) |-> rho[((k - 1) \div N) + 1][((k - 1) % N) + 1]]

\* rho_vec.reshape((N, N))
Reshape(v, N) == MatOf(N, LAMBDA r, c : v[(r - 1) * N + c])

\* One row of U @ v, accumulated from the left.
RECURSIVE Dot(_, _, _)
Dot(row, v, n) ==
    IF n = 0 THEN CZero ELSE CAdd(Dot(row, v, n - 1), CMul(row[n], v[n]))

\* U_dt @ rho_vec
MatVec(U, v) == [r \in 1..Len(v) |-> Dot(U[r], v, Len(v))]

\* A faulty variant of NanToNum: the vector is left as computed.
NanToNumOmitted(v) == v

\* np.nan_to_num(rho_vec, nan=0.0, posinf=0.0, neginf=0.0): on a complex
\* array the real and the imaginary parts are replaced separately.
NanToNum(v) ==
    [k \in 1..Len(v) |->
        Cplx(IF IsFinite(v[k].re) THEN v[k].re ELSE 0,
             IF IsFinite(v[k].im) THEN v[k].im ELSE 0)]

\* if not np.all(np.isfinite(rho_vec)): rho_vec = np.nan_to_num(...)
BlowUpGuard(v) ==
    IF \A k \in 1..Len(v) : CIsFinite(v[k]) THEN v ELSE NanToNum(v)

CeilDiv(a, b) == (a + b - 1) \div b

\* A faulty variant of TimeGrid: np.arange(0.0, T_end, dt).
TimeGridExclusive(T_end, dt) ==
    [k \in 1..CeilDiv(T_end, dt) |-> (k - 1) * dt]

\* np.arange(0.0, T_end + dt, dt): ceil((T_end + dt) / dt) samples k * dt.
TimeGrid(T_end, dt) ==
    [k \in 1..CeilDiv(T_end + dt, dt) |-> (k - 1) * dt]

\* Entries of the matrices drawn as inputs: small ones, and ones whose
\* products leave the float range.
PropVals == {Cplx(1, 0), Cplx(0, 1), Cplx(7, 0), Cplx(7, 7)}
RhoVals == {Cplx(1, 0), Cplx(6, 1), Cplx(7, 7), Cplx(NaN, 0)}

\* The initial states drawn: v at (0,0), w at (N-1,N-1), zero elsewhere.
RhoInputs(N) ==
    {MatOf(N, LAMBDA r, c : IF r = 1 /\ c = 1 THEN v
                            ELSE IF r = N /\ c = N THEN w ELSE CZero) :
        v \in RhoVals, w \in RhoVals}

\* scipy's expm(L_total * dt) is not computed here.  Its result is drawn
\* from the n x n matrices with a on the diagonal and b on the cyclic
\* superdiagonal, so that L_H, L_D and L_total (lines 69-82), which feed
\* nothing else, are left out.
Propagators(n) ==
    {MatOf(n, LAMBDA r, c : IF r = c THEN a
                            ELSE IF c = (r % n) + 1 THEN b ELSE CZero) :
        a \in PropVals, b \in PropVals}

EvoInit ==
    /\ \E N \in 1..MaxDim :
          evo \in [pc : {"start"},
                   rho0 : RhoInputs(N),
                   T_end : 0..MaxT,
                   dt : 1..MaxDt,
                   U_dt : {<<>>}, times : {<<>>}, rho_vec : {<<>>},
                   rho_raw : {<<>>}, rho_t_series : {<<>>}, k : {0}]
    /\ ham = Idle /\ lind = Idle /\ etef = Idle /\ gstar = Idle
    /\ res = Idle /\ sweep = Idle /\ tau = Idle

\* Lines 67-88: the time grid, the flattened state, the series holding a
\* copy of rho0, and the one-step propagator.
EvoSetup ==
    /\ evo.pc = "start"
    /\ \E U \in Propagators(Dim(evo.rho0) * Dim(evo.rho0)) :
          evo' = [evo EXCEPT !.pc = "loop",
                             !.times = TimeGrid(evo.T_end, evo.dt),
                             !.rho_vec = Flatten(evo.rho0),
                             !.rho_t_series = <<evo.rho0>>,
                             !.U_dt = U,
                             !.k = 1]
    /\ UNCHANGED <<ham, lind, etef, gstar, res, sweep, tau>>

\* Lines 90-96: one iteration of "for _ in times[1:]".  k is the number of
\* samples of the grid consumed so far; rho_raw keeps the product of
\* line 91 as it was before the guard.
EvoStep ==
    /\ evo.pc = "loop"
    /\ evo.k < Len(evo.times)
    /\ LET raw == MatVec(evo.U_dt, evo.rho_vec)
           vec == BlowUpGuard(raw)
       IN  evo' = [evo EXCEPT
                      !.rho_raw = raw,
                      !.rho_vec = vec,
                      !.rho_t_series = Append(@, Reshape(vec, Dim(evo.rho0))),
                      !.k = @ + 1]
    /\ UNCHANGED <<ham, lind, etef, gstar, res, sweep, tau>>

\* Line 98: return rho_t_series, times
EvoReturn ==
    /\ evo.pc = "loop"
    /\ evo.k >= Len(evo.times)
    /\ evo' = [evo EXCEPT !.pc = "done"]
    /\ UNCHANGED <<ham, lind, etef, gstar, res, sweep, tau>>

EvoNext == EvoSetup \/ EvoStep \/ EvoReturn

SpecEvolve == EvoInit /\ [][EvoNext]_vars

StepStored == evo.pc \in {"loop", "done"} /\ evo.k >= 2

\* C10 as stated, for the state a step stores: every entry of the product
\* that is not finite is stored as 0, every finite entry as computed, and
\* every matrix after the first holds finite entries only.
C10_EntryZeroed ==
    StepStored =>
        /\ \A j \in 1..Len(evo.rho_raw) :
              evo.rho_vec[j] =
                  IF CIsFinite(evo.rho_raw[j]) THEN evo.rho_raw[j] ELSE CZero
        /\ Flatten(evo.rho_t_series[evo.k]) = evo.rho_vec
        /\ \A m \in 2..Len(evo.rho_t_series) :
              \A r, c \in 1..Dim(evo.rho0) : CIsFinite(evo.rho_t_series[m][r][c])

\* Every real and imaginary part stored by the latest step is the part
\* computed when that is finite, and 0 otherwise; the series ends with that
\* state; and every matrix after the first holds finite entries only.
C10_Stored ==
    StepStored =>
        /\ \A j \in 1..Len(evo.rho_raw) :
              /\ evo.rho_vec[j].re =
                    IF IsFinite(evo.rho_raw[j].re) THEN evo.rho_raw[j].re ELSE 0
              /\ evo.rho_vec[j].im =
                    IF IsFinite(evo.rho_raw[j].im) THEN evo.rho_raw[j].im ELSE 0
        /\ Len(evo.rho_t_series) = evo.k
        /\ Flatten(evo.rho_t_series[evo.k]) = evo.rho_vec
        /\ \A m \in 2..Len(evo.rho_t_series) :
              \A r, c \in 1..Dim(evo.rho0) : CIsFinite(evo.rho_t_series[m][r][c])

\* Once the loop is entered the propagator stays the one computed before
\* it, each step multiplies the current state by it, and the matrices
\* already stored are not touched.
C10_Step ==
    evo.pc = "loop" =>
        /\ evo'.U_dt = evo.U_dt
        /\ evo'.k > evo.k =>
              /\ evo'.rho_raw = MatVec(evo.U_dt, evo.rho_vec)
              /\ SubSeq(evo'.rho_t_series, 1, evo.k) = evo.rho_t_series

\* C10 as amended: the propagator is computed once before the loop and
\* applied at every step; after each step every non-finite real or
\* imaginary part of the state is replaced by 0 (a finite part of the same
\* entry is kept) before the state is stored and used again, so every
\* matrix after the initial one is finite, and finite parts are left as
\* computed.
C10_PartsZeroed == [](C10_Stored) /\ [][C10_Step]_vars

\* A step whose product has an entry with an overflowed real part and a
\* finite imaginary part: the entry is stored with that imaginary part.
C10_Witness ==
    /\ StepStored
    /\ \E j \in 1..Len(evo.rho_raw) :
          /\ evo.rho_raw[j].re = PosInf
          /\ IsFinite(evo.rho_raw[j].im) /\ evo.rho_raw[j].im # 0
          /\ evo.rho_vec[j] = Cplx(0, evo.rho_raw[j].im)

-----------------------------------------------------------------------------
(* compute_ete, metrics.py:4-17 *)

\* Populations, rates and time steps are far from the float range here, so
\* the sum is exact: a population p / PopScale is held as the integer p, and
\* so is the sum; 1.0 is PopScale.
EteOne == PopScale

\* A faulty variant of Clip: the value is returned unclipped.
ClipOmitted(x, lo, hi) == x

\* np.clip(x, lo, hi)
Clip(x, lo, hi) == IF x < lo THEN lo ELSE IF x > hi THEN hi ELSE x

\* for rho in rho_t_series: ete += k_sink * np.real(rho[sink, sink]) * dt
RECURSIVE EteSum(_, _, _, _, _)
EteSum(rho_t_series, sink_index, k_sink, dt, n) ==
    IF n = 0 THEN 0
    ELSE EteSum(rho_t_series, sink_index, k_sink, dt, n - 1)
         + (k_sink * rho_t_series[n][sink_index + 1][sink_index + 1].re) * dt

compute_ete(rho_t_series, sink_index, k_sink, dt) ==
    Clip(EteSum(rho_t_series, sink_index, k_sink, dt, Len(rho_t_series)),
         0, EteOne)

\* Two-site states with population p at site 1 and the rest at site 0; p may
\* be negative or exceed 1, and the entry at site 1 has an imaginary part.
EteRhos ==
    {<< <<Cplx(PopScale - p, 0), CZero>>, <<CZero, Cplx(p, 1)>> >> :
        p \in (-1)..PopScale}

EteInit ==
    /\ etef \in [pc : {"calls"},
                 rho_t_series : SeqsBetween(EteRhos, 0, MaxLen),
                 sink_index : 0..1,
                 dt : 1..MaxDt,
                 ete : {<<>>}]
    /\ ham = Idle /\ lind = Idle /\ evo = Idle /\ gstar = Idle
    /\ res = Idle /\ sweep = Idle /\ tau = Idle

\* One call of compute_ete on the trajectory, with a k_sink not tried yet;
\* ete[k_sink] keeps what the call returned.
EteCall ==
    /\ etef.pc = "calls"
    /\ \E k_sink \in (0..MaxRate) \ DOMAIN etef.ete :
          etef' = [etef EXCEPT !.ete =
                      [k \in DOMAIN etef.ete \cup {k_sink} |->
                          IF k = k_sink
                          THEN compute_ete(etef.rho_t_series, etef.sink_index,
                                           k_sink, etef.dt)
                          ELSE etef.ete[k]]]
    /\ UNCHANGED <<ham, lind, evo, gstar, res, sweep, tau>>

EteNext == EteCall

SpecEte == EteInit /\ [][EteNext]_vars

C5_WitnessNegative ==
    /\ DOMAIN etef.ete = 0..2
    /\ EteSum(etef.rho_t_series, etef.sink_index, 1, etef.dt,
              Len(etef.rho_t_series)) < 0
    /\ etef.ete[2] = 0

-----------------------------------------------------------------------------
(* find_gamma_star, metrics.py:74-82 *)

\* A faulty variant of PyMaxByETE: a later entry replaces an equal earlier one.
RECURSIVE PyMaxByETELast(_, _)
PyMaxByETELast(results, n) ==
    IF n = 1 THEN results[1]
    ELSE LET best == PyMaxByETELast(results, n - 1)
         IN  IF results[n].ETE >= best.ETE THEN results[n] ELSE best

\* max(enaqt_results, key=lambda d: d["ETE"]) over the first n entries:
\* Python's max keeps the first of several maximal items.
RECURSIVE PyMaxByETE(_, _)
PyMaxByETE(results, n) ==
    IF n = 1 THEN results[1]
    ELSE LET best == PyMaxByETE(results, n - 1)
         IN  IF results[n].ETE > best.ETE THEN results[n] ELSE best

find_gamma_star(enaqt_results) ==
    IF enaqt_results = <<>> THEN <<0, 0>>
    ELSE LET best == PyMaxByETE(enaqt_results, Len(enaqt_results))
         IN  <<best.gamma, best.ETE>>

SweepEntries == [gamma : 0..MaxRate, ETE : 0..EteOne]

GstarInit ==
    /\ gstar \in [pc : {"call"},
                  enaqt_results : SeqsBetween(SweepEntries, 0, MaxLen),
                  ret : {<<>>}]
    /\ ham = Idle /\ lind = Idle /\ evo = Idle /\ etef = Idle
    /\ res = Idle /\ sweep = Idle /\ tau = Idle

GstarCall ==
    /\ gstar.pc = "call"
    /\ gstar' = [gstar EXCEPT !.pc = "done",
                              !.ret = find_gamma_star(gstar.enaqt_results)]
    /\ UNCHANGED <<ham, lind, evo, etef, res, sweep, tau>>

GstarNext == GstarCall

SpecGstar == GstarInit /\ [][GstarNext]_vars

\* C6: find_gamma_star returns (0, 0) on an empty sweep, the single entry
\* of a one-entry sweep, and on a non-empty sweep the (gamma, ETE) of the
\* earliest entry whose ETE no other entry exceeds.
C6_EarliestMaximum ==
    gstar.pc = "done" =>
        LET R == gstar.enaqt_results
        IN  /\ R = <<>> => gstar.ret = <<0, 0>>
            /\ Len(R) = 1 => gstar.ret = <<R[1].gamma, R[1].ETE>>
            /\ R # <<>> =>
                  \E m \in 1..Len(R) :
                      /\ gstar.ret = <<R[m].gamma, R[m].ETE>>
                      /\ \A j \in 1..Len(R) : R[j].ETE <= R[m].ETE
                      /\ \A j \in 1..(m - 1) :
                            R[j].ETE < R[m].ETE \/ R[j].gamma = R[m].gamma

\* A sweep whose maximum is reached twice, at different rates, after a
\* smaller first entry: the rate of the earlier of the two is returned.
C6_Witness ==
    /\ gstar.pc = "done"
    /\ Len(gstar.enaqt_results) = 3
    /\ gstar.enaqt_results[1].ETE < gstar.enaqt_results[2].ETE
    /\ gstar.enaqt_results[2].ETE = gstar.enaqt_results[3].ETE
    /\ gstar.enaqt_results[2].gamma # gstar.enaqt_results[3].gamma
    /\ gstar.ret = <<gstar.enaqt_results[2].gamma, gstar.enaqt_results[2].ETE>>

-----------------------------------------------------------------------------
(* Exact fractions, for the quotients the metrics return *)

RECURSIVE GCD(_, _)
GCD(a, b) == IF b = 0 THEN a ELSE GCD(b, a % b)

Abs(x) == IF x < 0 THEN -x ELSE x

\* The fraction n / d (d # 0) in lowest terms with a positive denominator.
Rat(n, d) ==
    LET g == GCD(Abs(n), Abs(d))
        sgn == IF d < 0 THEN -1 ELSE 1
    IN  [n |-> sgn * (n \div g), d |-> sgn * (d \div g)]

RZero == Rat(0, 1)
ROne == Rat(1, 1)
RAdd(a, b) == Rat(a.n * b.d + b.n * a.d, a.d * b.d)
RSub(a, b) == Rat(a.n * b.d - b.n * a.d, a.d * b.d)
RLe(a, b) == a.n * b.d <= b.n * a.d
RMax(a, b) == IF RLe(a, b) THEN b ELSE a
RClip(x, lo, hi) == IF RLe(x, lo) THEN lo ELSE IF RLe(hi, x) THEN hi ELSE x

Max(a, b) == IF a >= b THEN a ELSE b

-----------------------------------------------------------------------------
(* compute_resilience, metrics.py:84-101 *)

\* The literal 1e-6 of lines 90 and 96, in units of the score grid: scores
\* are integers counting half-millionths.
ResEps == 2

\* A faulty variant of Drop: a negative drop is not raised to 0.
DropUnclamped(base_qhs, q) == Rat(base_qhs - q, Max(base_qhs, ResEps))

\* drop = max(0.0, (base_qhs - q) / max(base_qhs, 1e-6))
Drop(base_qhs, q) == RMax(RZero, Rat(base_qhs - q, Max(base_qhs, ResEps)))

\* sum of the drops of the first n scores
RECURSIVE DropSum(_, _, _)
DropSum(base_qhs, jitter_qhs_list, n) ==
    IF n = 0 THEN RZero
    ELSE RAdd(DropSum(base_qhs, jitter_qhs_list, n - 1),
              Drop(base_qhs, jitter_qhs_list[n]))

\* float(np.mean(drops)) if drops else 0.0
MeanDrop(base_qhs, jitter_qhs_list) ==
    LET n == Len(jitter_qhs_list)
        total == DropSum(base_qhs, jitter_qhs_list, n)
    IN  IF n = 0 THEN RZero ELSE Rat(total.n, total.d * n)

compute_resilience(base_qhs, jitter_qhs_list) ==
    IF base_qhs <= ResEps THEN ROne
    ELSE RClip(RSub(ROne, MeanDrop(base_qhs, jitter_qhs_list)), RZero, ROne)

ResInit ==
    /\ res \in [pc : {"call"},
                base_qhs : 0..MaxScore,
                jitter_qhs_list : SeqsBetween(0..MaxScore, 0, MaxLen),
                ret : {RZero}]
    /\ ham = Idle /\ lind = Idle /\ evo = Idle /\ etef = Idle
    /\ gstar = Idle /\ sweep = Idle /\ tau = Idle

ResCall ==
    /\ res.pc = "call"
    /\ res' = [res EXCEPT
                  !.pc = "done",
                  !.ret = compute_resilience(res.base_qhs, res.jitter_qhs_list)]
    /\ UNCHANGED <<ham, lind, evo, etef, gstar, sweep, tau>>

ResNext == ResCall

SpecRes == ResInit /\ [][ResNext]_vars

\* The sum over the list of max(0, base - q), in grid units.
RECURSIVE ShortfallSum(_, _, _)
ShortfallSum(base, list, n) ==
    IF n = 0 THEN 0 ELSE ShortfallSum(base, list, n - 1) + Max(0, base - list[n])

\* ret = clip(1 - mean(max(0, (base - q) / max(base, 1e-6))), 0, 1), the
\* mean of no scores being 0.  With n scores and D = n * max(base, 1e-6)
\* this says ret = max(0, D - S) / D for the shortfall sum S.
EqualsClippedMean(ret, base, list) ==
    LET n == Len(list)
        D == n * Max(base, ResEps)
        S == ShortfallSum(base, list, n)
    IN  IF n = 0 THEN ret = ROne
        ELSE ret.n * D = ret.d * Max(0, D - S)

InUnitInterval(x) == RLe(RZero, x) /\ RLe(x, ROne)

\* C7 as stated: the result is 1.0 when base <= 1e-6, and for every base
\* and every list it lies in [0, 1] and equals the clipped mean formula.
C7_FormulaForEveryBase ==
    res.pc = "done" =>
        /\ res.base_qhs <= ResEps => res.ret = ROne
        /\ InUnitInterval(res.ret)
        /\ EqualsClippedMean(res.ret, res.base_qhs, res.jitter_qhs_list)

\* C7 as amended: the result is 1.0 when base <= 1e-6, it lies in [0, 1]
\* for every base and list, and for base > 1e-6 it equals the clipped mean
\* formula (the mean of an empty list taken as 0).
C7_FormulaAboveFloor ==
    res.pc = "done" =>
        /\ res.base_qhs <= ResEps => res.ret = ROne
        /\ InUnitInterval(res.ret)
        /\ res.base_qhs > ResEps =>
              EqualsClippedMean(res.ret, res.base_qhs, res.jitter_qhs_list)

\* A base above the floor with one score above it and one below it: the
\* first contributes no drop, and the result lies strictly inside (0, 1).
C7_Witness ==
    /\ res.pc = "done"
    /\ res.base_qhs = 3
    /\ res.jitter_qhs_list = <<4, 2>>
    /\ res.ret = Rat(5, 6)

\* A base at or below the floor with a smaller score: the result is 1.0.
C7_WitnessFloor ==
    /\ res.pc = "done"
    /\ res.base_qhs = 1
    /\ res.jitter_qhs_list = <<0>>
    /\ res.ret = ROne

-----------------------------------------------------------------------------
(* compute_ete_for_gamma and enaqt_sweep, simulate.py:100-128 *)

\* params.get(key, default)
ParamGet(params, key, default) ==
    IF key \in DOMAIN params THEN params[key] ELSE default

\* rho0 = np.zeros((NUM_ETC_SITES, NUM_ETC_SITES)); rho0[0, 0] = 1.0
EntrySiteState ==
    MatOf(NUM_ETC_SITES, LAMBDA r, c : IF r = 1 /\ c = 1 THEN Cplx(1, 0) ELSE CZero)

\* Lines 67-82 of time_evolve add np.kron(I, H) - np.kron(H.T, I) and the
\* dissipator of every L_k, built with I = identity(N) for N = rho0.shape[0],
\* to one N^2 x N^2 matrix: numpy raises ValueError unless H and every L_k
\* are N x N.
LiouvillianShapesAgree(rho0, H, L_ops) ==
    /\ Dim(H) = Dim(rho0)
    /\ \A k \in 1..Len(L_ops) : Dim(L_ops[k]) = Dim(rho0)

\* A faulty variant of LindbladFor: the operators are built for the rate recorded
\* in params, not for the rate of the sweep.
LindbladForParamsGamma(params, gamma) ==
    build_lindblad_ops(NUM_ETC_SITES, params.gamma,
                       ParamGet(params, "k_sink", K_SINK),
                       ParamGet(params, "k_loss", K_LOSS))

\* Lines 107-111: L_ops = build_lindblad_ops(NUM_ETC_SITES, gamma, k_sink, k_loss)
LindbladFor(params, gamma) ==
    build_lindblad_ops(NUM_ETC_SITES, gamma,
                       ParamGet(params, "k_sink", K_SINK),
                       ParamGet(params, "k_loss", K_LOSS))

\* The values compute_ete may hand back to compute_ete_for_gamma.  The
\* evolution and the metric are modelled by SpecEvolve and SpecEte; here
\* the outcome of the two calls of lines 116-117 is one of these.
EteOutcomes == {0, EteOne}

Repeat(x, n) == [k \in 1..n |-> x]

\* The records drawn as params: uniform chains of 6 or 7 sites with 5 to 7
\* couplings, with and without the optional keys.
ParamRecords ==
    LET base == {[epsilon |-> Repeat(e, n), J |-> Repeat(1, m), gamma |-> 1] :
                    e \in Vals, n \in {NUM_ETC_SITES - 1, NUM_ETC_SITES},
                    m \in (NUM_ETC_SITES - 2)..NUM_ETC_SITES}
    IN  base
        \cup {[epsilon |-> b.epsilon, J |-> b.J, gamma |-> b.gamma,
               k_sink |-> 4] : b \in base}
        \cup {[epsilon |-> b.epsilon, J |-> b.J, gamma |-> b.gamma,
               k_sink |-> 4, k_loss |-> 0] : b \in base}

SweepInit ==
    /\ sweep \in [pc : {"loop"},
                  params : ParamRecords,
                  gammas : SeqsBetween(Rates, 0, MaxSweep),
                  T : {MaxT}, dt : {1},
                  results : {<<>>}, i : {0},
                  H : {<<>>}, L_ops : {<<>>}, rho0 : {<<>>},
                  raised : {"none"}]
    /\ ham = Idle /\ lind = Idle /\ evo = Idle /\ etef = Idle
    /\ gstar = Idle /\ res = Idle /\ tau = Idle

\* One iteration of "for g in gammas": compute_ete_for_gamma(params, g, T, dt)
\* and the append of line 127.  H, L_ops and rho0 keep what the call built.
\* An exception of the call ends the sweep without a result.
SweepStep ==
    /\ sweep.pc = "loop"
    /\ sweep.i < Len(sweep.gammas)
    /\ LET g == sweep.gammas[sweep.i + 1]
           Hres == build_hamiltonian(sweep.params.epsilon, sweep.params.J)
           Lres == LindbladFor(sweep.params, g)
       IN  IF Hres.raised # "none"
           THEN sweep' = [sweep EXCEPT !.pc = "raised", !.raised = Hres.raised]
           ELSE IF Lres.raised # "none"
           THEN sweep' = [sweep EXCEPT !.pc = "raised", !.raised = Lres.raised,
                                       !.H = Hres.value]
           ELSE IF ~LiouvillianShapesAgree(EntrySiteState, Hres.value, Lres.value)
           THEN sweep' = [sweep EXCEPT !.pc = "raised", !.raised = "ValueError",
                                       !.H = Hres.value, !.L_ops = Lres.value,
                                       !.rho0 = EntrySiteState]
           ELSE \E ete \in EteOutcomes :
                   sweep' = [sweep EXCEPT
                                !.H = Hres.value,
                                !.L_ops = Lres.value,
                                !.rho0 = EntrySiteState,
                                !.results = Append(@, [gamma |-> g, ETE |-> ete]),
                                !.i = @ + 1]
    /\ UNCHANGED <<ham, lind, evo, etef, gstar, res, tau>>

\* Line 128: return results
SweepReturn ==
    /\ sweep.pc = "loop"
    /\ sweep.i >= Len(sweep.gammas)
    /\ sweep' = [sweep EXCEPT !.pc = "done"]
    /\ UNCHANGED <<ham, lind, evo, etef, gstar, res, tau>>

SweepNext == SweepStep \/ SweepReturn

SpecSweep == SweepInit /\ [][SweepNext]_vars

\* The pairs collected so far are one per rate swept so far, in the order
\* of gammas; the returned list has one pair per rate; and the latest
\* iteration built its operators for its own rate, from the Hamiltonian
\* inputs, k_sink and k_loss of params, with the excitation at site 0.
C8_Collected ==
    sweep.pc \in {"loop", "done"} =>
        LET N == NUM_ETC_SITES
            P == sweep.params
        IN  /\ Len(sweep.results) = sweep.i
            /\ sweep.i <= Len(sweep.gammas)
            /\ sweep.pc = "done" => Len(sweep.results) = Len(sweep.gammas)
            /\ \A k \in 1..sweep.i : sweep.results[k].gamma = sweep.gammas[k]
            /\ sweep.i >= 1 =>
                  /\ Len(sweep.L_ops) = 2 * N
                  /\ \A k \in 1..N :
                        sweep.L_ops[k][k][k].re = FSqrt(sweep.gammas[sweep.i])
                  /\ \A k \in 1..(N - 1) :
                        sweep.L_ops[N + k][k][k].re =
                            FSqrt(IF "k_loss" \in DOMAIN P THEN P.k_loss ELSE K_LOSS)
                  /\ sweep.L_ops[2 * N][N][N].re =
                        FSqrt(IF "k_sink" \in DOMAIN P THEN P.k_sink ELSE K_SINK)
                  /\ \A k \in 1..N : sweep.H[k][k].re = P.epsilon[k]
                  /\ \A k \in 1..(N - 1) : sweep.H[k][k + 1].re = P.J[k]
                  /\ sweep.rho0[1][1] = Cplx(1, 0)

\* No step changes params or gammas, a pair once collected stays, and from
\* one iteration to the next the Hamiltonian and the initial state are the
\* same.
C8_Frame ==
    /\ sweep'.params = sweep.params
    /\ sweep'.gammas = sweep.gammas
    /\ SubSeq(sweep'.results, 1, Len(sweep.results)) = sweep.results
    /\ (sweep.i >= 1 /\ sweep'.i > sweep.i) =>
          /\ sweep'.H = sweep.H
          /\ sweep'.rho0 = sweep.rho0

\* C8: enaqt_sweep returns one (gamma, ETE) pair per swept rate, in the
\* order of gammas, the k-th pair carrying the k-th rate; each ETE comes
\* from operators rebuilt for that rate while epsilon, J, k_sink, k_loss
\* and the initial state stay the same, and params is left unchanged.
C8_OnePairPerRate == [](C8_Collected) /\ [][C8_Frame]_vars

\* A finished sweep over two different rates, with the default loss rate.
C8_Witness ==
    /\ sweep.pc = "done"
    /\ Len(sweep.gammas) = 2 /\ sweep.gammas[1] # sweep.gammas[2]
    /\ sweep.gammas[2] # sweep.params.gamma
    /\ Len(sweep.results) = 2
    /\ sweep.results[1].gamma = sweep.gammas[1]
    /\ sweep.results[2].gamma = sweep.gammas[2]
    /\ "k_loss" \notin DOMAIN sweep.params
    /\ sweep.L_ops[1][1][1].re = FSqrt(sweep.gammas[2])

-----------------------------------------------------------------------------
(* coherence_measure and compute_tau_c, metrics.py:19-61 *)

\* a <= b on floats: false when either is nan.
FLe(a, b) == ~IsNaN(a) /\ ~IsNaN(b) /\ a <= b

\* x / 2.0: exact on the even numbers, which is all this model halves.
FHalf(x) == IF IsFinite(x) THEN x \div 2 ELSE x

\* The sum of the squares of one part ("re" or "im") of the first n entries.
RECURSIVE SumSq(_, _, _)
SumSq(v, part, n) ==
    IF n = 0 THEN 0
    ELSE FAdd(SumSq(v, part, n - 1), FMul(v[n][part], v[n][part]))

\* off_diag = rho.copy(); np.fill_diagonal(off_diag, 0.0);
\* np.linalg.norm(off_diag, ord='fro'): the root of the sum of the squared
\* real parts plus the sum of the squared imaginary parts.
coherence_measure(rho) ==
    LET N == Dim(rho)
        off_diag == MatOf(N, LAMBDA r, c : IF r = c THEN CZero ELSE rho[r][c])
        flat == Flatten(off_diag)
    IN  FSqrt(FAdd(SumSq(flat, "re", N * N), SumSq(flat, "im", N * N)))

\* C[~np.isfinite(C)] = 0.0; C = np.maximum(C, 0.0)
ClampCoherence(c) == IF ~IsFinite(c) THEN 0 ELSE Max(c, 0)

\* A faulty variant of TrapzTerm: the left rectangle d * y[i].
TrapzTermLeft(d, y_left, y_right) == FMul(d, y_left)

\* One term of np.trapz: d * (y[1:] + y[:-1]) / 2.0
TrapzTerm(d, y_left, y_right) == FHalf(FMul(d, FAdd(y_right, y_left)))

\* np.trapz(y, x) over the first n samples: the terms over np.diff(x), summed.
RECURSIVE Trapz(_, _, _)
Trapz(y, x, n) ==
    IF n <= 1 THEN 0
    ELSE FAdd(Trapz(y, x, n - 1),
              TrapzTerm(FSub(x[n], x[n - 1]), y[n - 1], y[n]))

\* The literal 1e-12 of line 46 lies below the first positive float of this
\* model: the largest float not above it is 0.
TauDenFloor == 0

\* tau = num / den for den above the floor, and np.isfinite(tau).  The
\* quotient of two finite floats is kept exact.
TauQuotient(num, den) ==
    IF IsFinite(num) /\ IsFinite(den) THEN [finite |-> TRUE, value |-> Rat(num, den)]
    ELSE IF IsFinite(num) /\ IsInf(den) THEN [finite |-> TRUE, value |-> RZero]
    ELSE [finite |-> FALSE, value |-> RZero]

compute_tau_c(rho_t_series, times) ==
    LET n == Len(rho_t_series)
        C == [k \in 1..n |-> ClampCoherence(coherence_measure(rho_t_series[k]))]
        den == Trapz(C, times, n)
        num == Trapz([k \in 1..n |-> FMul(times[k], C[k])], times, n)
        tau_c == TauQuotient(num, den)
    IN  IF FLe(den, TauDenFloor) THEN RZero
        ELSE IF ~tau_c.finite THEN RZero
        ELSE tau_c.value

\* Two-site states drawn as inputs, by their coherence: none; 1; 5 with a
\* complex entry; 6 with a nan on the diagonal; an overflowing norm; nan.
TauRhos ==
    { << <<Cplx(1, 0), CZero>>, <<CZero, CZero>> >>,
      << <<Cplx(1, 0), Cplx(1, 0)>>, <<CZero, CZero>> >>,
      << <<Cplx(1, 0), Cplx(3, 0)>>, <<Cplx(0, 4), CZero>> >>,
      << <<Cplx(NaN, 0), Cplx(0, 6)>>, <<CZero, Cplx(1, 0)>> >>,
      << <<CZero, Cplx(7, 0)>>, <<Cplx(7, 0), Cplx(1, 0)>> >>,
      << <<CZero, Cplx(NaN, 0)>>, <<Cplx(1, 0), Cplx(1, 0)>> >> }

\* The time grids of n samples drawn: a start of 0 or 2, then even steps.
RECURSIVE GridFrom(_, _, _)
GridFrom(t0, steps, n) ==
    IF n = 1 THEN <<t0>>
    ELSE LET g == GridFrom(t0, steps, n - 1)
         IN  Append(g, g[n - 1] + steps[n - 1])

TimeGrids(n) ==
    {GridFrom(t0, steps, n) :
        t0 \in {0, 2}, steps \in [1..(n - 1) -> {2 * h : h \in 1..MaxDt}]}

TauInit ==
    /\ \E n \in 1..MaxLen :
          tau \in [pc : {"call"},
                   rho_t_series : [1..n -> TauRhos],
                   times : TimeGrids(n),
                   ret : {RZero}]
    /\ ham = Idle /\ lind = Idle /\ evo = Idle /\ etef = Idle
    /\ gstar = Idle /\ res = Idle /\ sweep = Idle

TauCall ==
    /\ tau.pc = "call"
    /\ tau' = [tau EXCEPT !.pc = "done",
                          !.ret = compute_tau_c(tau.rho_t_series, tau.times)]
    /\ UNCHANGED <<ham, lind, evo, etef, gstar, res, sweep>>

TauNext == TauCall

SpecTau == TauInit /\ [][TauNext]_vars

\* The clamped coherence of every sample of the trajectory at hand.
TauCoherence ==
    [k \in 1..Len(tau.rho_t_series) |->
        ClampCoherence(coherence_measure(tau.rho_t_series[k]))]

\* Twice the trapezoidal integral of y over x, in exact integers.
RECURSIVE Trap2(_, _, _)
Trap2(y, x, n) ==
    IF n <= 1 THEN 0
    ELSE Trap2(y, x, n - 1) + (x[n] - x[n - 1]) * (y[n - 1] + y[n])

\* Twice the coherence integral, and twice the time-weighted one.
TauDen2 == Trap2(TauCoherence, tau.times, Len(tau.times))
TauNum2 ==
    Trap2([k \in 1..Len(tau.times) |-> tau.times[k] * TauCoherence[k]],
          tau.times, Len(tau.times))

\* The two integrals as the floats the code holds.
TauDenFloat == Trapz(TauCoherence, tau.times, Len(tau.times))
TauNumFloat ==
    Trapz([k \in 1..Len(tau.times) |-> FMul(tau.times[k], TauCoherence[k])],
          tau.times, Len(tau.times))

C9_WitnessOverflow ==
    /\ tau.pc = "done"
    /\ TauDen2 > 0 /\ IsFinite(TauDenFloat) /\ ~IsFinite(TauNumFloat)
    /\ tau.ret = RZero

\* Three samples without coherence: the integral is 0 and 0.0 is returned.
C9_WitnessNoCoherence ==
    /\ tau.pc = "done"
    /\ Len(tau.times) = 3 /\ TauDen2 = 0
    /\ tau.ret = RZero

====
